---- MODULE Spec2Model ----
(***************************************************************************)
(* Weather_Monitor.py: a fetch -> filter -> aggregate -> render pipeline.  *)
(* Python strings on which the script works character by character         *)
(* (lower(), `in`) are tuples of one-character strings; strings it only    *)
(* copies (the type and the urgency of a warning) are TLA+ strings.        *)
(***************************************************************************)
EXTENDS Integers, Sequences, FiniteSets

(* ---------------------------------------------------------------- str *)

\* The letters str.lower() changes, and what it changes them to.
UpperChars == <<"A", "B", "C", "D", "E", "F", "G", "H", "I", "J", "K", "L", "M", "N", "O", "P", "Q", "R", "S", "T", "U", "V", "W", "X", "Y", "Z", "Ä", "Ö", "Ü">>
LowerChars == <<"a", "b", "c", "d", "e", "f", "g", "h", "i", "j", "k", "l", "m", "n", "o", "p", "q", "r", "s", "t", "u", "v", "w", "x", "y", "z", "ä", "ö", "ü">>

\* The characters of the model in code-point order (the order of Python's <).
CodePoints == <<" ", "-", "A", "B", "C", "D", "E", "F", "G", "H", "I", "J", "K", "L", "M", "N", "O", "P", "Q", "R", "S", "T", "U", "V", "W", "X", "Y", "Z", "a", "b", "c", "d", "e", "f", "g", "h", "i", "j", "k", "l", "m", "n", "o", "p", "q", "r", "s", "t", "u", "v", "w", "x", "y", "z", "Ä", "Ö", "Ü", "ä", "ö", "ü">>

\* str.lower() letter by letter, for the letters it changes.
lower_map ==
    [c \in {UpperChars[i] : i \in 1..Len(UpperChars)} |->
        LowerChars[CHOOSE i \in 1..Len(UpperChars) : UpperChars[i] = c]]

\* str.lower() on one character.
lower_char(c) == IF c \in DOMAIN lower_map THEN lower_map[c] ELSE c

\* str.lower().
lower(s) == [i \in 1..Len(s) |-> lower_char(s[i])]

\* `k in s` on two strings: k is a substring of s.
Contains(s, k) ==
    \E i \in 1..(Len(s) - Len(k) + 1) : SubSeq(s, i, i + Len(k) - 1) = k

\* The rank of each character in code-point order.
ord_map ==
    [c \in {CodePoints[i] : i \in 1..Len(CodePoints)} |->
        CHOOSE i \in 1..Len(CodePoints) : CodePoints[i] = c]

\* The code point's rank of a character.
Ord(c) == ord_map[c]

RECURSIVE StrLess(_, _)
\* a < b on two strings: lexicographic by code point.
StrLess(a, b) ==
    IF b = <<>> THEN FALSE
    ELSE IF a = <<>> THEN TRUE
    ELSE IF Head(a) = Head(b) THEN StrLess(Tail(a), Tail(b))
    ELSE Ord(Head(a)) < Ord(Head(b))

(* ------------------------------------------------------ configuration *)

\* target_cities, in the order of the list.
target_cities ==
    << <<"B", "e", "r", "l", "i", "n">>,
       <<"M", "ü", "n", "c", "h", "e", "n">>,
       <<"H", "a", "m", "b", "u", "r", "g">>,
       <<"D", "r", "e", "s", "d", "e", "n">>,
       <<"S", "t", "u", "t", "t", "g", "a", "r", "t">>,
       <<"N", "ü", "r", "n", "b", "e", "r", "g">> >>

\* The keyword list of the filter loop (gewitter is in it twice).
weather_keywords ==
    << <<"w", "e", "t", "t", "e", "r">>,
       <<"s", "t", "u", "r", "m">>,
       <<"r", "e", "g", "e", "n">>,
       <<"g", "e", "w", "i", "t", "t", "e", "r">>,
       <<"s", "c", "h", "n", "e", "e">>,
       <<"e", "i", "s">>,
       <<"g", "l", "ä", "t", "t", "e">>,
       <<"h", "i", "t", "z", "e">>,
       <<"f", "r", "o", "s", "t">>,
       <<"w", "i", "n", "d">>,
       <<"o", "r", "k", "a", "n">>,
       <<"u", "n", "w", "e", "t", "t", "e", "r">>,
       <<"n", "i", "e", "d", "e", "r", "s", "c", "h", "l", "a", "g">>,
       <<"g", "e", "w", "i", "t", "t", "e", "r">>,
       <<"h", "a", "g", "e", "l">>,
       <<"n", "e", "b", "e", "l">>,
       <<"g", "l", "a", "t", "t", "e", "i", "s">> >>

\* The shorter keyword list of the report's last section.
report_keywords ==
    << <<"w", "e", "t", "t", "e", "r">>,
       <<"s", "t", "u", "r", "m">>,
       <<"r", "e", "g", "e", "n">>,
       <<"g", "e", "w", "i", "t", "t", "e", "r">>,
       <<"s", "c", "h", "n", "e", "e">> >>

S_minor == <<"m", "i", "n", "o", "r">>
S_moderate == <<"m", "o", "d", "e", "r", "a", "t", "e">>
S_severe == <<"s", "e", "v", "e", "r", "e">>
S_extreme == <<"e", "x", "t", "r", "e", "m", "e">>
S_Unknown == <<"U", "n", "k", "n", "o", "w", "n">>

\* severity_map.get(label, 0).
severity_map_get(label) ==
    CASE label = S_minor -> 1
      [] label = S_moderate -> 2
      [] label = S_severe -> 3
      [] label = S_extreme -> 4
      [] OTHER -> 0

\* A catalog whose Frost Warning carries the score of another template.
weather_events_typo ==
    << [type |-> "Thunderstorm Warning", severity |-> S_severe, score |-> 3, urgency |-> "Immediate"],
       [type |-> "Heavy Rain Warning", severity |-> S_moderate, score |-> 2, urgency |-> "Expected"],
       [type |-> "Heat Wave Warning", severity |-> S_extreme, score |-> 4, urgency |-> "Immediate"],
       [type |-> "Strong Wind Warning", severity |-> S_moderate, score |-> 2, urgency |-> "Expected"],
       [type |-> "Frost Warning", severity |-> S_minor, score |-> 2, urgency |-> "Future"],
       [type |-> "Storm Warning", severity |-> S_extreme, score |-> 4, urgency |-> "Immediate"],
       [type |-> "Snow Warning", severity |-> S_moderate, score |-> 2, urgency |-> "Expected"] >>

\* The catalog of create_sample_weather_data.
weather_events ==
    << [type |-> "Thunderstorm Warning", severity |-> S_severe, score |-> 3, urgency |-> "Immediate"],
       [type |-> "Heavy Rain Warning", severity |-> S_moderate, score |-> 2, urgency |-> "Expected"],
       [type |-> "Heat Wave Warning", severity |-> S_extreme, score |-> 4, urgency |-> "Immediate"],
       [type |-> "Strong Wind Warning", severity |-> S_moderate, score |-> 2, urgency |-> "Expected"],
       [type |-> "Frost Warning", severity |-> S_minor, score |-> 1, urgency |-> "Future"],
       [type |-> "Storm Warning", severity |-> S_extreme, score |-> 4, urgency |-> "Immediate"],
       [type |-> "Snow Warning", severity |-> S_moderate, score |-> 2, urgency |-> "Expected"] >>

(* ---------------------------------------------------------- raw data *)

\* A value of a raw record's field: a string, a value that is no string
\* (None, a number), or no such key.
Str(s) == [t |-> "str", s |-> s]
NotStr == [t |-> "other", s |-> <<>>]
Absent == [t |-> "absent", s |-> <<>>]

\* The same for a field the script only copies (type, urgency).
Text(s) == [t |-> "str", s |-> s]
NoText == [t |-> "absent", s |-> ""]

\* A raw record that is a mapping with a title map holding the key de.
Alert(de, name, region, area, severity, type, urgency) ==
    [kind |-> "dict", i18nTitle |-> "dict", de |-> de, name |-> name,
     region |-> region, area |-> area, severity |-> severity, type |-> type,
     urgency |-> urgency]

\* The raw records the feed's answer is drawn from.
RawItems ==
    <<
       \* Gewitterwarnung, München by name, severity Severe
       Alert(Str(<<"G", "e", "w", "i", "t", "t", "e", "r", "w", "a", "r", "n", "u", "n", "g">>),
             Str(<<"m", "ü", "n", "c", "h", "e", "n", "-", "z", "e", "n", "t", "r", "u", "m">>), Absent, Absent,
             Str(<<"S", "e", "v", "e", "r", "e">>), Text("Gewitter"), Text("Immediate")),
       \* Schweinepest: not a weather title
       Alert(Str(<<"S", "c", "h", "w", "e", "i", "n", "e", "p", "e", "s", "t">>),
             Str(<<"B", "e", "r", "l", "i", "n">>), Absent, Absent,
             Str(<<"m", "o", "d", "e", "r", "a", "t", "e">>), Text("Tierseuche"), NoText),
       \* Frostwarnung, no name, a region naming two cities, no severity
       Alert(Str(<<"F", "r", "o", "s", "t", "w", "a", "r", "n", "u", "n", "g">>),
             Absent, Str(<<"H", "a", "m", "b", "u", "r", "g", "-", "B", "e", "r", "l", "i", "n">>), Str(<<"D", "r", "e", "s", "d", "e", "n">>),
             Absent, NoText, NoText),
       \* STURMFLUT, a name outside the list beside a region inside it
       Alert(Str(<<"S", "T", "U", "R", "M", "F", "L", "U", "T">>),
             Str(<<"K", "i", "e", "l">>), Str(<<"H", "a", "m", "b", "u", "r", "g">>), Absent,
             Str(<<"s", "e", "v", "e", "r", "e">>), Text("Flut"), Text("Expected")),
       \* Hitze, Dresden by area, a severity label outside the table
       Alert(Str(<<"H", "i", "t", "z", "e">>),
             Absent, Absent, Str(<<"D", "R", "E", "S", "D", "E", "N">>),
             Str(<<"U", "n", "k", "n", "o", "w", "n">>), NoText, Text("Future")),
       \* Starkregen, a name that is no string
       Alert(Str(<<"S", "t", "a", "r", "k", "r", "e", "g", "e", "n">>),
             NotStr, Str(<<"B", "e", "r", "l", "i", "n">>), Absent,
             Str(<<"s", "e", "v", "e", "r", "e">>), NoText, NoText),
       \* Schneefall, a severity that is no string
       Alert(Str(<<"S", "c", "h", "n", "e", "e", "f", "a", "l", "l">>),
             Str(<<"S", "t", "u", "t", "t", "g", "a", "r", "t">>), Absent, Absent,
             NotStr, NoText, NoText),
       \* a title that is no string
       Alert(NotStr,
             Str(<<"B", "e", "r", "l", "i", "n">>), Absent, Absent,
             Str(<<"m", "i", "n", "o", "r">>), NoText, NoText),
       \* Nebel, no name, region or area
       Alert(Str(<<"N", "e", "b", "e", "l">>),
             Absent, Absent, Absent,
             Str(<<"m", "i", "n", "o", "r">>), NoText, NoText),
       \* Orkan, NÜRNBERG, severity EXTREME
       Alert(Str(<<"O", "r", "k", "a", "n">>),
             Str(<<"N", "Ü", "R", "N", "B", "E", "R", "G">>), Absent, Absent,
             Str(<<"E", "X", "T", "R", "E", "M", "E">>), Text("Orkan"), Text("Immediate")),
       \* Glatteis, Berlin by name, severity moderate
       Alert(Str(<<"G", "l", "a", "t", "t", "e", "i", "s">>),
             Str(<<"B", "e", "r", "l", "i", "n", "-", "M", "i", "t", "t", "e">>), Absent, Absent,
             Str(<<"m", "o", "d", "e", "r", "a", "t", "e">>), Text("Glatteis"), Text("Expected")),
       \* a mapping without the key i18nTitle
       [Alert(Absent, Str(<<"B", "e", "r", "l", "i", "n">>), Absent, Absent, Str(S_severe), NoText, NoText)
            EXCEPT !.i18nTitle = "absent"],
       \* a title map without the key de
       Alert(Absent,
             Str(<<"D", "r", "e", "s", "d", "e", "n">>), Absent, Absent,
             Str(S_extreme), NoText, NoText),
       \* a mapping whose i18nTitle is no mapping (a number)
       [Alert(Absent, Absent, Absent, Absent, Absent, NoText, NoText)
            EXCEPT !.i18nTitle = "int"],
       \* an element of the array that is no mapping (a number)
       [Alert(Absent, Absent, Absent, Absent, Absent, NoText, NoText)
            EXCEPT !.kind = "int", !.i18nTitle = "absent"]
    >>

\* The raw record at position k of RawItems; raw_data holds the positions.
ItemAt(k) == RawItems[k]

\* The longest answer of the feed the model draws.
MaxBatch == 3

\* The most event templates the random source draws in one run of the
\* sample generator (every city may still be included or left out).
MaxDistinctEvents == 2

(* ------------------------------------------------------- fetch_live_data *)

\* How the single GET ends: with a decoded body, or with one of the errors
\* requests raises (a transport error, a timeout, raise_for_status on a
\* non-success status, a body that is no JSON).
FetchOutcomes == {"ok", "ConnectionError", "Timeout", "HTTPError", "JSONDecodeError"}

\* The subclasses of requests.exceptions.RequestException among them.
RequestExceptions == {"ConnectionError", "Timeout", "HTTPError"}

\* A fetch that lets an error status out of the function.
fetch_live_data_unhandled_status(outcome, body) ==
    IF outcome = "ok" THEN [raised |-> FALSE, value |-> body]
    ELSE IF outcome \in RequestExceptions \ {"HTTPError"} THEN [raised |-> FALSE, value |-> <<>>]
    ELSE IF outcome = "JSONDecodeError" THEN [raised |-> FALSE, value |-> <<>>]
    ELSE [raised |-> TRUE, value |-> <<>>]

\* fetch_live_data(): the body on success, [] from either except clause.
fetch_live_data(outcome, body) ==
    IF outcome = "ok" THEN [raised |-> FALSE, value |-> body]
    ELSE IF outcome \in RequestExceptions THEN [raised |-> FALSE, value |-> <<>>]
    ELSE IF outcome = "JSONDecodeError" THEN [raised |-> FALSE, value |-> <<>>]
    ELSE [raised |-> TRUE, value |-> <<>>]

(* --------------------------------------------- create_sample_weather_data *)

\* The date the generator stamps on a record; the clock is not modelled.
Today == "today"

\* create_sample_weather_data() for one run of the random source: picks[i]
\* is 0 when random() <= 0.4 for the i-th city, else 1 + the randint draw.
create_sample_weather_data(picks) ==
    LET included == SelectSeq([i \in 1..Len(target_cities) |-> i],
                              LAMBDA i : picks[i] # 0)
    IN  [k \in 1..Len(included) |->
            LET city == target_cities[included[k]]
                event == weather_events[picks[included[k]]]
            IN  [Region |-> city, Date |-> Today, Type |-> event.type,
                 Severity |-> event.severity, Score |-> event.score,
                 Urgency |-> event.urgency]]

(* ------------------------------------------------------- the filter loop *)

\* The title without the lower-casing.
title_of_as_written(item) == item.de.s

\* title = item['i18nTitle']['de'].lower()
title_of(item) == lower(item.de.s)

\* any(keyword in title for keyword in weather_keywords)
is_weather_title(title) ==
    \E k \in 1..Len(weather_keywords) : Contains(title, weather_keywords[k])

\* region: the first present of name, region, area, else "Unknown".
region_of(item) ==
    IF item.name.t # "absent" THEN item.name
    ELSE IF item.region.t # "absent" THEN item.region
    ELSE IF item.area.t # "absent" THEN item.area
    ELSE Str(S_Unknown)

\* A match that keeps the last city found instead of breaking at the first.
matched_city_last(region_lower) ==
    LET hits == {i \in 1..Len(target_cities) :
                    Contains(region_lower, lower(target_cities[i]))}
    IN  IF hits = {} THEN 0 ELSE CHOOSE i \in hits : \A j \in hits : j <= i

\* The index of matched_city in target_cities, 0 for None: the first city
\* whose lower-cased name is in region_lower.
matched_city(region_lower) ==
    LET hits == {i \in 1..Len(target_cities) :
                    Contains(region_lower, lower(target_cities[i]))}
    IN  IF hits = {} THEN 0 ELSE CHOOSE i \in hits : \A j \in hits : i <= j

\* A score looked up without lower-casing the label.
score_of_exact(severity) == severity_map_get(severity)

\* score = severity_map.get(severity.lower(), 0)
score_of(severity) == severity_map_get(lower(severity))

\* item.get(key, 'Unknown')
get_or_unknown(v) == IF v.t = "absent" THEN "Unknown" ELSE v.s

\* What one pass of the loop body does with an item: which counter it
\* raises, whether it ends in the except clause, and the record it appends.
Outcome(counted, raised, out) == [counted |-> counted, raised |-> raised, out |-> out]

\* The body of `for item in raw_data`, in the order of its statements.
process_item(item) ==
    IF item.kind # "dict" THEN Outcome("none", TRUE, <<>>)
    ELSE IF item.i18nTitle = "absent" THEN Outcome("none", FALSE, <<>>)
    ELSE IF item.i18nTitle # "dict" THEN Outcome("none", TRUE, <<>>)
    ELSE IF item.de.t = "absent" THEN Outcome("none", FALSE, <<>>)
    ELSE IF item.de.t # "str" THEN Outcome("none", TRUE, <<>>)
    ELSE LET title == title_of(item) IN
    IF ~ is_weather_title(title) THEN Outcome("other", FALSE, <<>>)
    ELSE LET region == region_of(item) IN
    IF region.t # "str" THEN Outcome("weather", TRUE, <<>>)
    ELSE LET m == matched_city(lower(region.s)) IN
    IF m = 0 THEN Outcome("weather", FALSE, <<>>)
    ELSE LET severity == IF item.severity.t = "absent" THEN Str(S_minor)
                         ELSE item.severity IN
    IF severity.t # "str" THEN Outcome("weather", TRUE, <<>>)
    ELSE Outcome("weather", FALSE,
                 << [Region |-> target_cities[m], Severity |-> severity.s,
                     Score |-> score_of(severity.s),
                     Type |-> get_or_unknown(item.type),
                     Urgency |-> get_or_unknown(item.urgency),
                     Title |-> title] >>)

\* A loop whose except clause leaves the loop.
after_item_break(i, raised, n) ==
    IF raised THEN [pc |-> "filter", idx |-> n + 1] ELSE [pc |-> "filter", idx |-> i + 1]

\* Where the loop goes after item i of n: on to the next item, from the end
\* of the body, from a continue and from the except clause alike.
after_item(i, raised, n) == [pc |-> "filter", idx |-> i + 1]

\* process_item on each raw record of RawItems.
item_outcome == [k \in 1..Len(RawItems) |-> process_item(ItemAt(k))]

(* ------------------------------------------------------------ aggregate *)

RECURSIVE sum_scores(_, _)
\* df[df.Region == city].Score.sum(), record by record.
sum_scores(recs, city) ==
    IF recs = <<>> THEN 0
    ELSE (IF Head(recs).Region = city THEN Head(recs).Score ELSE 0)
         + sum_scores(Tail(recs), city)

RECURSIVE count_rows(_, _)
\* The number of a city's rows.
count_rows(recs, city) ==
    IF recs = <<>> THEN 0
    ELSE (IF Head(recs).Region = city THEN 1 ELSE 0) + count_rows(Tail(recs), city)

\* A group-by that counts the rows of a group.
groupby_count(recs) ==
    LET keys == {recs[i].Region : i \in 1..Len(recs)}
        rank == [k \in keys |-> 1 + Cardinality({j \in keys : StrLess(j, k)})]
    IN  [i \in 1..Cardinality(keys) |->
            LET k == CHOOSE k \in keys : rank[k] = i
            IN  [Region |-> k, Score |-> count_rows(recs, k), IsNaN |-> FALSE]]

\* df.groupby("Region")["Score"].sum(): one entry per region of the frame,
\* the regions in sorted order, each with the sum of its rows' scores.
groupby_sum(recs) ==
    LET keys == {recs[i].Region : i \in 1..Len(recs)}
        rank == [k \in keys |-> 1 + Cardinality({j \in keys : StrLess(j, k)})]
    IN  [i \in 1..Cardinality(keys) |->
            LET k == CHOOSE k \in keys : rank[k] = i
            IN  [Region |-> k, Score |-> sum_scores(recs, k), IsNaN |-> FALSE]]

\* city in severity_summary.index
in_index(summary, city) == \E i \in 1..Len(summary) : summary[i].Region = city

\* The loop that sets severity_summary[city] = 0 for each city not in the
\* index: each such city is appended, in the order of target_cities.
fill_missing(summary) ==
    LET zeros == [i \in 1..Len(target_cities) |->
                    [Region |-> target_cities[i], Score |-> 0, IsNaN |-> FALSE]]
    IN  summary \o SelectSeq(zeros, LAMBDA e : ~ in_index(summary, e.Region))

\* A reindex left out: the series stays in the order it was built in.
reindex_skipped(summary, order) == summary

\* severity_summary.reindex(order): the entries in the order of `order`, NaN
\* for a label the series does not hold.
reindex(summary, order) ==
    [i \in 1..Len(order) |->
        IF in_index(summary, order[i])
        THEN summary[CHOOSE j \in 1..Len(summary) : summary[j].Region = order[i]]
        ELSE [Region |-> order[i], Score |-> 0, IsNaN |-> TRUE]]

\* An aggregation that counts warnings instead of summing their scores.
aggregate_counting(recs) == reindex(fill_missing(groupby_count(recs)), target_cities)

\* severity_summary of the else branch: group, fill, reorder.
aggregate(recs) == reindex(fill_missing(groupby_sum(recs)), target_cities)

(* --------------------------------------------------------------- chart *)

\* A branch on the scores instead of on the frame.
df_empty_when_all_zero(recs) == \A i \in 1..Len(recs) : recs[i].Score = 0

\* df.empty: the frame built from records has no row.
df_empty(recs) == recs = <<>>

\* The bars of the "all clear" chart: every target city at 0, one colour.
all_clear_bars ==
    [i \in 1..Len(target_cities) |->
        [city |-> target_cities[i], value |-> 0, color |-> "lightgreen",
         label |-> "none"]]

\* The bars of the per-city chart: colour and label by score > 0.
per_city_bars(summary) ==
    [i \in 1..Len(summary) |->
        [city |-> summary[i].Region, value |-> summary[i].Score,
         color |-> IF ~ summary[i].IsNaN /\ summary[i].Score > 0
                   THEN "crimson" ELSE "lightgreen",
         label |-> IF ~ summary[i].IsNaN /\ summary[i].Score > 0
                   THEN "score" ELSE "No warnings"]]

(* ------------------------------------------- sample of filtered-out alerts *)

\* any(keyword in title.lower() for keyword in [the five keywords])
report_title_is_weather(title) ==
    \E k \in 1..Len(report_keywords) : Contains(lower(title), report_keywords[k])

\* The body of `for item in raw_data[:2]`: it prints the item, passes it
\* over, or raises (nothing catches an exception here).
report_item(item) ==
    IF item.kind # "dict" THEN "raise"
    ELSE IF item.i18nTitle = "absent" THEN "skip"
    ELSE IF item.i18nTitle # "dict" THEN "raise"
    ELSE IF item.de.t = "absent" THEN "skip"
    ELSE IF item.de.t # "str" THEN "raise"
    ELSE IF ~ report_title_is_weather(item.de.s) THEN "print"
    ELSE "skip"

\* report_item on each raw record of RawItems.
item_report == [k \in 1..Len(RawItems) |-> report_item(ItemAt(k))]

\* raw_data[:2]
ReportSampleSize == 2

\* The items the last section looks at.
report_slice(data) ==
    SubSeq(data, 1, IF Len(data) < ReportSampleSize THEN Len(data) ELSE ReportSampleSize)

(* ----------------------------------------------------------- the script *)

VARIABLES
    USE_LIVE_DATA,          \* the toggle at the top of the script
    pc,                     \* where the script is
    fetch_outcome,          \* how the GET ended (live mode)
    raw_data,               \* live: the positions in RawItems of the feed's records
    idx,                    \* the position of `for item in raw_data`
    records,
    weather_alerts_found,
    other_alerts_found,
    outcomes,               \* what each pass of the loop did, item by item
    severity_summary,       \* unset (<<>>) unless the else branch ran
    chart,                  \* which chart was drawn
    bars,                   \* the bars of that chart, top to bottom
    printed                 \* the items the last section printed, by position

vars == <<USE_LIVE_DATA, pc, fetch_outcome, raw_data, idx, records,
          weather_alerts_found, other_alerts_found, outcomes,
          severity_summary, chart, bars, printed>>

\* The state when the data source is about to run. USE_LIVE_DATA is the
\* constant at the top of the script (False as shipped, True to use the
\* feed); a run is the script under either setting.
Init ==
    /\ USE_LIVE_DATA \in BOOLEAN
    /\ pc = "source"
    /\ fetch_outcome = "none"
    /\ raw_data = <<>>
    /\ idx = 1
    /\ records = <<>>
    /\ weather_alerts_found = 0
    /\ other_alerts_found = 0
    /\ outcomes = <<>>
    /\ severity_summary = <<>>
    /\ chart = "none"
    /\ bars = <<>>
    /\ printed = <<>>

\* raw_data = fetch_live_data()
Fetch ==
    /\ pc = "source"
    /\ USE_LIVE_DATA
    /\ \E outcome \in FetchOutcomes, n \in 0..MaxBatch :
         \E b \in [1..n -> 1..Len(RawItems)] :
            LET r == fetch_live_data(outcome, b)
            IN  /\ fetch_outcome' = outcome
                /\ raw_data' = r.value
                /\ pc' = IF r.raised THEN "aborted" ELSE "filter"
    /\ UNCHANGED <<USE_LIVE_DATA, idx, records, weather_alerts_found,
                   other_alerts_found, outcomes, severity_summary, chart,
                   bars, printed>>

\* raw_data = create_sample_weather_data(); records = raw_data
SampleSource ==
    /\ pc = "source"
    /\ ~ USE_LIVE_DATA
    /\ \E drawn \in SUBSET (1..Len(weather_events)) :
         /\ Cardinality(drawn) <= MaxDistinctEvents
         /\ \E picks \in [1..Len(target_cities) -> drawn \cup {0}] :
              /\ raw_data' = create_sample_weather_data(picks)
              /\ records' = raw_data'
    /\ pc' = "chart"
    /\ UNCHANGED <<USE_LIVE_DATA, fetch_outcome, idx, weather_alerts_found,
                   other_alerts_found, outcomes, severity_summary, chart,
                   bars, printed>>

\* One pass of `for item in raw_data`, its try and its except.
FilterItem ==
    /\ pc = "filter"
    /\ idx <= Len(raw_data)
    /\ LET r == item_outcome[raw_data[idx]]
           next == after_item(idx, r.raised, Len(raw_data))
       IN  /\ records' = records \o r.out
           /\ weather_alerts_found' =
                weather_alerts_found + (IF r.counted = "weather" THEN 1 ELSE 0)
           /\ other_alerts_found' =
                other_alerts_found + (IF r.counted = "other" THEN 1 ELSE 0)
           /\ outcomes' = Append(outcomes, [counted |-> r.counted,
                                            raised |-> r.raised,
                                            emitted |-> r.out # <<>>])
           /\ pc' = next.pc
           /\ idx' = next.idx
    /\ UNCHANGED <<USE_LIVE_DATA, fetch_outcome, raw_data, severity_summary,
                   chart, bars, printed>>

\* The loop is over.
EndFilter ==
    /\ pc = "filter"
    /\ idx > Len(raw_data)
    /\ pc' = "chart"
    /\ UNCHANGED <<USE_LIVE_DATA, fetch_outcome, raw_data, idx, records,
                   weather_alerts_found, other_alerts_found, outcomes,
                   severity_summary, chart, bars, printed>>

\* The frame, and the chart of either branch of `if df.empty`.
RenderChart ==
    /\ pc = "chart"
    /\ IF df_empty(records)
       THEN /\ chart' = "all_clear"
            /\ bars' = all_clear_bars
            /\ severity_summary' = severity_summary
       ELSE /\ chart' = "per_city"
            /\ severity_summary' = aggregate(records)
            /\ bars' = per_city_bars(severity_summary')
    /\ pc' = "report"
    /\ UNCHANGED <<USE_LIVE_DATA, fetch_outcome, raw_data, idx, records,
                   weather_alerts_found, other_alerts_found, outcomes, printed>>

\* The last section: the sample of alerts that were filtered out.
ReportFiltered ==
    /\ pc = "report"
    /\ IF USE_LIVE_DATA /\ raw_data # <<>> /\ other_alerts_found > 0
       THEN LET first == report_slice(raw_data)
                does(i) == item_report[first[i]]
                reached(i) == \A j \in 1..(i - 1) : does(j) # "raise"
            IN  /\ printed' = SelectSeq([i \in 1..Len(first) |-> i],
                                        LAMBDA i : reached(i) /\ does(i) = "print")
                /\ pc' = IF \E i \in 1..Len(first) : does(i) = "raise"
                         THEN "aborted" ELSE "done"
       ELSE /\ printed' = printed
            /\ pc' = "done"
    /\ UNCHANGED <<USE_LIVE_DATA, fetch_outcome, raw_data, idx, records,
                   weather_alerts_found, other_alerts_found, outcomes,
                   severity_summary, chart, bars>>

Next ==
    \/ Fetch
    \/ SampleSource
    \/ FilterItem
    \/ EndFilter
    \/ RenderChart
    \/ ReportFiltered

Spec == Init /\ [][Next]_vars

(* =============================================================== claims *)

\* The chart has been drawn.
Rendered == chart # "none"

\* The filter loop is over (live mode).
Filtered == USE_LIVE_DATA /\ pc \in {"chart", "report", "done"}

\* The raw record the i-th pass of the loop worked on.
Raw(i) == ItemAt(raw_data[i])

\* The position in records of the record the i-th pass appended.
RecordOf(i) == Cardinality({j \in 1..i : outcomes[j].emitted})

RECURSIVE SumOver(_, _)
\* The sum of f over the finite set I.
SumOver(f, I) ==
    IF I = {} THEN 0
    ELSE LET i == CHOOSE i \in I : TRUE IN f[i] + SumOver(f, I \ {i})

\* The scores of the warnings, by position.
Scores == [i \in 1..Len(records) |-> records[i].Score]

\* The values of the bars, by position.
BarValues == [i \in 1..Len(bars) |-> bars[i].value]

\* The four labels of the table, and the table written out.
TableScore(label) ==
    IF label = <<"m", "i", "n", "o", "r">> THEN 1
    ELSE IF label = <<"m", "o", "d", "e", "r", "a", "t", "e">> THEN 2
    ELSE IF label = <<"s", "e", "v", "e", "r", "e">> THEN 3
    ELSE IF label = <<"e", "x", "t", "r", "e", "m", "e">> THEN 4
    ELSE 0

T_Gewitterwarnung == <<"G", "e", "w", "i", "t", "t", "e", "r", "w", "a", "r", "n", "u", "n", "g">>
T_Schweinepest == <<"S", "c", "h", "w", "e", "i", "n", "e", "p", "e", "s", "t">>
T_Frostwarnung == <<"F", "r", "o", "s", "t", "w", "a", "r", "n", "u", "n", "g">>
R_muenchen_zentrum == <<"m", "ü", "n", "c", "h", "e", "n", "-", "z", "e", "n", "t", "r", "u", "m">>
R_Hamburg_Berlin == <<"H", "a", "m", "b", "u", "r", "g", "-", "B", "e", "r", "l", "i", "n">>
L_Severe == <<"S", "e", "v", "e", "r", "e">>
L_EXTREME == <<"E", "X", "T", "R", "E", "M", "E">>
C_Berlin == <<"B", "e", "r", "l", "i", "n">>
C_Muenchen == <<"M", "ü", "n", "c", "h", "e", "n">>
C_Hamburg == <<"H", "a", "m", "b", "u", "r", "g">>
C_Dresden == <<"D", "r", "e", "s", "d", "e", "n">>
C_Stuttgart == <<"S", "t", "u", "t", "t", "g", "a", "r", "t">>
C_Nuernberg == <<"N", "ü", "r", "n", "b", "e", "r", "g">>

(* ------------------------------------------------------------------ C1 *)

\* C1: whatever the warnings, the chart's per-city result holds the six
\* target cities, each once and nothing else, in the order Berlin, München,
\* Hamburg, Dresden, Stuttgart, Nürnberg; the series of the else branch is
\* in that order with no NaN, and with no warning every total is 0.
C1_OnePerCityInOrder ==
    Rendered =>
        /\ [i \in 1..Len(bars) |-> bars[i].city]
              = <<C_Berlin, C_Muenchen, C_Hamburg, C_Dresden, C_Stuttgart, C_Nuernberg>>
        /\ records = <<>> => \A i \in 1..Len(bars) : bars[i].value = 0
        /\ records # <<>> =>
              /\ [i \in 1..Len(severity_summary) |-> severity_summary[i].Region]
                    = <<C_Berlin, C_Muenchen, C_Hamburg, C_Dresden, C_Stuttgart, C_Nuernberg>>
              /\ \A i \in 1..Len(severity_summary) : ~ severity_summary[i].IsNaN

\* C1's case: warnings for Dresden and Berlin only, Dresden's first, so that
\* neither the order of the records nor the order the series is built in
\* (Berlin, Dresden, then the four cities filled in) is the order of the
\* result.
C1_Witness ==
    /\ Rendered
    /\ Len(records) = 2
    /\ records[1].Region = C_Dresden
    /\ records[2].Region = C_Berlin

(* ------------------------------------------------------------------ C2 *)

\* C2: the totals of the six cities add up to the sum of the scores of all
\* the warnings, and the total of a city is the sum of the scores of the
\* warnings of that city.
C2_TotalsAreSums ==
    Rendered =>
        /\ SumOver(BarValues, DOMAIN BarValues) = SumOver(Scores, DOMAIN Scores)
        /\ \A b \in 1..Len(bars) :
              bars[b].value =
                 SumOver(Scores, {i \in 1..Len(records) : records[i].Region = bars[b].city})

\* C2's case: a city with two warnings of different scores beside a city
\* with one.
C2_Witness ==
    /\ Rendered
    /\ \E i, j, k \in 1..Len(records) :
          /\ records[i].Region = records[j].Region
          /\ records[i].Score # records[j].Score
          /\ records[k].Region # records[i].Region
          /\ records[k].Score > 0

(* ------------------------------------------------------------------ C3 *)

\* C3 as stated: in live mode the score of a record is 1, 2, 3, 4 for the
\* labels minor, moderate, severe, extreme and 0 for every other label,
\* case variants of the four labels included.
C3_CaseVariantsScoreZero ==
    USE_LIVE_DATA =>
        \A i \in 1..Len(records) : records[i].Score = TableScore(records[i].Severity)

\* C3 as amended: in live mode the score of a record is 1, 2, 3, 4 when its
\* label lower-cased is minor, moderate, severe, extreme (so "Severe" scores
\* 3 and "EXTREME" scores 4), and 0 for every other label.
C3_ScoreOfLowerCasedLabel ==
    USE_LIVE_DATA =>
        \A i \in 1..Len(records) :
            /\ records[i].Score = TableScore(lower(records[i].Severity))
            /\ records[i].Severity = L_Severe => records[i].Score = 3
            /\ records[i].Severity = L_EXTREME => records[i].Score = 4

\* C3's case: a record labelled "Severe", one labelled "EXTREME" and one
\* whose label is none of the four.
C3_Witness ==
    /\ USE_LIVE_DATA
    /\ \E i, j, k \in 1..Len(records) :
          /\ records[i].Severity = L_Severe
          /\ records[j].Severity = L_EXTREME
          /\ TableScore(lower(records[k].Severity)) = 0

(* ------------------------------------------------------------------ C4 *)

\* The city of a warning is a target city and its score is in 0..4.
WellFormed(r) ==
    /\ r.Region \in {C_Berlin, C_Muenchen, C_Hamburg, C_Dresden, C_Stuttgart, C_Nuernberg}
    /\ r.Score \in 0..4

\* C4 as stated: every warning that reaches the aggregation, from the
\* sample generator or the live filter, has a target city and a score in
\* 0..4 that is the table applied to its own severity label.
C4_ScoreIsTableOfOwnLabel ==
    pc = "chart" =>
        \A i \in 1..Len(records) :
            /\ WellFormed(records[i])
            /\ records[i].Score = TableScore(records[i].Severity)

\* C4 as amended: ... and a score in 0..4 that is the table applied to its
\* own severity label lower-cased.
C4_ScoreIsTableOfLowerCasedLabel ==
    pc = "chart" =>
        \A i \in 1..Len(records) :
            /\ WellFormed(records[i])
            /\ records[i].Score = TableScore(lower(records[i].Severity))

\* C4's case: the generator has included every city, a Frost Warning among
\* them, and the records are about to be aggregated.
C4_Witness ==
    /\ ~ USE_LIVE_DATA
    /\ pc = "chart"
    /\ Len(records) = 6
    /\ \E i \in 1..Len(records) : records[i].Type = "Frost Warning"

(* ------------------------------------------------------------------ C5 *)

\* Every city's aggregate score is zero.
AllZero == \A i \in 1..Len(bars) : bars[i].value = 0

FetchFailed == fetch_outcome \in FetchOutcomes \ {"ok"}

\* C6: after a failed fetch raw_data is empty, nothing aborts the run, the
\* script can always take its next step until it is done, there is never a
\* record nor a weather alert counted, and the chart is the "all clear" one.
C6_FailedFetchRunsToAllClear ==
    FetchFailed =>
        /\ raw_data = <<>>
        /\ pc # "aborted"
        /\ pc # "done" => ENABLED Next
        /\ records = <<>>
        /\ weather_alerts_found = 0
        /\ other_alerts_found = 0
        /\ Rendered => chart = "all_clear"
        /\ pc = "done" => chart = "all_clear" /\ printed = <<>>

\* C6's case: the feed answered with an error status and the run is done.
C6_Witness == fetch_outcome = "HTTPError" /\ pc = "done"

(* ------------------------------------------------------------------ C7 *)

\* The pass over raw record k ends in the except clause.
Raises == [k \in 1..Len(RawItems) |-> item_outcome[k].raised]

RECURSIVE RecordsOf(_)
\* The records a batch without a failing record yields, one record at a time.
RecordsOf(batch) ==
    IF batch = <<>> THEN <<>>
    ELSE item_outcome[Head(batch)].out \o RecordsOf(Tail(batch))

\* C7: when the loop is over every record of the batch has had its pass, a
\* pass that raised has appended nothing, and the records are those of the
\* batch with the raising records taken out.
C7_FailingRecordIsolated ==
    Filtered =>
        /\ Len(outcomes) = Len(raw_data)
        /\ \A i \in 1..Len(outcomes) : outcomes[i].raised => ~ outcomes[i].emitted
        /\ records = RecordsOf(SelectSeq(raw_data, LAMBDA k : ~ Raises[k]))

\* C7's case: a batch of three whose second record raises, between two
\* records that each yield a warning.
C7_Witness ==
    /\ Filtered
    /\ Len(outcomes) = 3
    /\ outcomes[1].emitted
    /\ outcomes[2].raised
    /\ outcomes[3].emitted

(* ------------------------------------------------------------------ C8 *)

\* Raw record k is a mapping with a German title that is a string.
HasTitle == [k \in 1..Len(RawItems) |->
                /\ ItemAt(k).kind = "dict"
                /\ ItemAt(k).i18nTitle = "dict"
                /\ ItemAt(k).de.t = "str"]

\* Raw record k is a mapping without a German title.
HasNoTitle == [k \in 1..Len(RawItems) |->
                /\ ItemAt(k).kind = "dict"
                /\ \/ ItemAt(k).i18nTitle = "absent"
                   \/ ItemAt(k).i18nTitle = "dict" /\ ItemAt(k).de.t = "absent"]

\* The lower-cased title of raw record k contains a keyword of the list.
TitleHasKeyword == [k \in 1..Len(RawItems) |->
                      /\ HasTitle[k]
                      /\ \E j \in 1..Len(weather_keywords) :
                            Contains(lower(ItemAt(k).de.s), weather_keywords[j])]

\* C8: a record with a German title is counted as a weather alert exactly
\* when its lower-cased title contains a keyword, and else as an other alert
\* that yields no warning; a record without a title is in neither counter;
\* the counters count just these; "Gewitterwarnung" is a weather title and
\* "Schweinepest" is not.
C8_KeywordFilter ==
    USE_LIVE_DATA =>
        /\ \A i \in 1..Len(outcomes) :
              /\ HasTitle[raw_data[i]] =>
                    /\ outcomes[i].counted = "weather" <=> TitleHasKeyword[raw_data[i]]
                    /\ outcomes[i].counted = "other" <=> ~ TitleHasKeyword[raw_data[i]]
                    /\ outcomes[i].counted = "other" => ~ outcomes[i].emitted
              /\ HasNoTitle[raw_data[i]] =>
                    outcomes[i].counted = "none" /\ ~ outcomes[i].emitted
              /\ Raw(i).de = Str(T_Gewitterwarnung) => outcomes[i].counted = "weather"
              /\ Raw(i).de = Str(T_Schweinepest) => outcomes[i].counted = "other"
        /\ weather_alerts_found =
              Cardinality({i \in 1..Len(outcomes) : outcomes[i].counted = "weather"})
        /\ other_alerts_found =
              Cardinality({i \in 1..Len(outcomes) : outcomes[i].counted = "other"})

\* C8's case: the loop has passed over "Gewitterwarnung", "Schweinepest" and
\* a record without a title.
C8_Witness ==
    /\ Filtered
    /\ \E i, j, k \in 1..Len(outcomes) :
          /\ Raw(i).de = Str(T_Gewitterwarnung)
          /\ Raw(j).de = Str(T_Schweinepest)
          /\ HasNoTitle[raw_data[k]]

(* ------------------------------------------------------------------ C9 *)

\* The value of the first present of name, region, area in raw record k.
FirstPresent == [k \in 1..Len(RawItems) |->
                    IF ItemAt(k).name # Absent THEN ItemAt(k).name
                    ELSE IF ItemAt(k).region # Absent THEN ItemAt(k).region
                    ELSE IF ItemAt(k).area # Absent THEN ItemAt(k).area
                    ELSE Str(S_Unknown)]

\* Target city m is named in the lower-cased region string of raw record k.
Names == [k \in 1..Len(RawItems) |->
            [m \in 1..Len(target_cities) |->
                /\ FirstPresent[k].t = "str"
                /\ Contains(lower(FirstPresent[k].s), lower(target_cities[m]))]]

\* C9: a weather record whose region string (the first present of name,
\* region, area, else "Unknown") is a string yields a warning exactly when
\* that string lower-cased contains the lower-cased name of a target city,
\* and the warning's city is the first such city of the list (provided its
\* severity is a string, or the pass raises); "münchen-zentrum" gives
\* München and "Hamburg-Berlin" gives Berlin.
C9_FirstCityInListOrder ==
    USE_LIVE_DATA =>
        \A i \in 1..Len(outcomes) :
            LET k == raw_data[i] IN
            outcomes[i].counted = "weather" /\ ~ outcomes[i].raised =>
                /\ outcomes[i].emitted <=> \E m \in 1..Len(target_cities) : Names[k][m]
                /\ outcomes[i].emitted =>
                      \E m \in 1..Len(target_cities) :
                          /\ records[RecordOf(i)].Region = target_cities[m]
                          /\ Names[k][m]
                          /\ \A j \in 1..(m - 1) : ~ Names[k][j]
                /\ FirstPresent[k] = Str(R_muenchen_zentrum) =>
                      outcomes[i].emitted /\ records[RecordOf(i)].Region = C_Muenchen
                /\ FirstPresent[k] = Str(R_Hamburg_Berlin) =>
                      outcomes[i].emitted /\ records[RecordOf(i)].Region = C_Berlin

\* C9's case: the loop has passed over the record of "münchen-zentrum", the
\* record whose region names Hamburg and Berlin (it has no name and an area
\* as well), and a weather record with no name, region or area.
C9_Witness ==
    /\ Filtered
    /\ \E i, j, k \in 1..Len(outcomes) :
          /\ FirstPresent[raw_data[i]] = Str(R_muenchen_zentrum)
          /\ Raw(j).name = Absent /\ Raw(j).region = Str(R_Hamburg_Berlin)
          /\ Raw(j).area # Absent
          /\ outcomes[k].counted = "weather" /\ FirstPresent[raw_data[k]] = Str(S_Unknown)

(* ----------------------------------------------------------------- C10 *)

\* C10: the section "sample of non-weather alerts (filtered out)" prints at
\* most two alerts, and each alert it prints is one the filter counted as an
\* other alert, never one it counted as a weather alert.
C10_PrintsOnlyOtherAlerts ==
    /\ Len(printed) <= 2
    /\ \A p \in 1..Len(printed) : outcomes[printed[p]].counted = "other"

\* C10's failing run: "Frostwarnung" for Berlin, which the filter counted
\* as a weather alert and turned into a warning, is printed in the section.
C10_WeatherAlertPrinted ==
    /\ pc = "done"
    /\ \E p \in 1..Len(printed) :
          /\ Raw(printed[p]).de = Str(T_Frostwarnung)
          /\ outcomes[printed[p]].counted = "weather"
          /\ outcomes[printed[p]].emitted

====
